---- MODULE Spec2Model ----
(***************************************************************************)
(* Model of the multiprocess scalability harness of multiarg.py:           *)
(* getSum (the work unit), getLims (the partitioner), getSums (the pool    *)
(* dispatch), get1Time / getTime (the timers) and cycle (the sweep).       *)
(*                                                                         *)
(* Floating-point values are carried as fixed-point integers: a value v    *)
(* stands for v / Scale (sqrt results, ratios, powers) or for v / Scale^2  *)
(* (squares and their sums).  Every conversion rounds, as the float        *)
(* operations of the program do, so sqrt(x)**2 is in general not x.        *)
(***************************************************************************)
EXTENDS Integers, Naturals, Sequences, FiniteSets, TLC

\* ------------------------------------------------------------------ bounds
Scale == 256       \* fixed-point resolution of the modelled floats
MaxArg == 6        \* getSum is called directly with start, end in 0..MaxArg
MaxRows == 5       \* getLims / getSums are called directly with nrows in -1..MaxRows
MaxVals == 3       \* ... and nvals in -1..MaxVals
MaxProcs == 2      \* nprocs in 1..MaxProcs
MaxCyc == 1        \* cycle is called with ncyc in 0..MaxCyc
MaxCush == 1       \* ... and lcush, ucush in 0..MaxCush
MaxX == 160        \* getSum is never asked for a range that ends above MaxX + 1
MaxFaults == 1     \* at most MaxFaults work units raise during one call

\* ------------------------------------------------------ numeric helpers
Abs(v) == IF v < 0 THEN -v ELSE v

RECURSIVE ISqrtIn(_, _, _)
\* floor(sqrt(n)), by bisection on lo..hi with lo*lo <= n < (hi+1)*(hi+1)
ISqrtIn(n, lo, hi) ==
    IF lo >= hi THEN lo
    ELSE LET mid == (lo + hi + 1) \div 2
         IN  IF mid * mid <= n THEN ISqrtIn(n, mid, hi) ELSE ISqrtIn(n, lo, mid - 1)

\* numpy sqrt(x) of a non-negative integer x, rounded to nearest, in units 1/Scale
Sqrt(x) ==
    LET n == x * Scale * Scale
        f == ISqrtIn(n, 0, (x + 1) * Scale)
    IN  IF n - f * f <= (f + 1) * (f + 1) - n THEN f ELSE f + 1

\* sqrt(x)**2 for every x a call of the model can reach, in units 1/Scale^2
SqrtSquaredTable == [x \in 0..MaxX |-> Sqrt(x) * Sqrt(x)]

\* sqrt(x)**2 (line 46)
SqrtSquared(x) == SqrtSquaredTable[x]

RECURSIVE SumOver(_, _)
\* the terms sqrt(x)**2 for x in range(start, end) added up.  Fixed-point
\* addition is exact, so the order of the additions does not matter and the
\* range is halved to keep the evaluation shallow.
SumOver(start, end) ==
    IF start >= end THEN 0
    ELSE IF end = start + 1 THEN SqrtSquared(start)
    ELSE LET mid == (start + end) \div 2
         IN  SumOver(start, mid) + SumOver(mid, end)

\* a faulty variant of getSum: the loop runs one step too far
getSumOffByOne(start, end) == SumOver(start, end + 1)

\* getSum(start, end): tot = 0; for x in range(start, end): tot += sqrt(x)**2
getSum(start, end) == SumOver(start, end)

\* the outcome of a call: the value it returns or the exception it raises
NoExc == [exc |-> "none"]
ValueError == [exc |-> "ValueError"]
ZeroDivisionError == [exc |-> "ZeroDivisionError"]
Returns(v) == [raised |-> FALSE, exc |-> NoExc, value |-> v]
Raises(e) == [raised |-> TRUE, exc |-> e, value |-> <<>>]

\* a faulty variant of getLims: the end column is set to nvals, not incremented by it
getLimsEndSet(nrows, nvals) ==
    IF nrows < 0 THEN Raises(ValueError)
    ELSE Returns([i \in 1..nrows |-> <<i - 1, nvals>>])

\* getLims(nrows, nvals): zeros((nrows, 2)) raises ValueError on a negative
\* dimension; otherwise both columns get the row index and the second column
\* gets nvals more.  Row i of the array is element i+1 of the sequence.
getLims(nrows, nvals) ==
    IF nrows < 0 THEN Raises(ValueError)
    ELSE Returns([i \in 1..nrows |-> <<i - 1, (i - 1) + nvals>>])

\* ------------------------------------------------ ratio and its powers
\* floor(a * b / Scale) <= limit, decided without forming a product above
\* limit * Scale + Scale
MulFits(a, b, limit) == b = 0 \/ a <= ((limit + 1) * Scale - 1) \div b

RECURSIVE PowFits(_, _, _, _)
\* acc * r**k <= limit, all in units 1/Scale, each product truncated
PowFits(acc, r, k, limit) ==
    IF k = 0 THEN acc <= limit
    ELSE MulFits(acc, r, limit) /\ PowFits((acc * r) \div Scale, r, k - 1, limit)

RECURSIVE RootIn(_, _, _, _)
\* the largest r in lo..hi with r**k <= target
RootIn(target, k, lo, hi) ==
    IF lo >= hi THEN lo
    ELSE LET mid == (lo + hi + 1) \div 2
         IN  IF PowFits(Scale, mid, k, target)
             THEN RootIn(target, k, mid, hi) ELSE RootIn(target, k, lo, mid - 1)

RECURSIVE Pow(_, _)
\* r ** n for n >= 0, in units 1/Scale, each product rounded to nearest;
\* 0.0 ** 0 is 1.0
Pow(r, n) == IF n = 0 THEN Scale ELSE (Pow(r, n - 1) * r + Scale \div 2) \div Scale

\* ntot ** (1/k) for ntot >= 0, k > 0, rounded to nearest, in units 1/Scale
Root(ntot, k) ==
    IF ntot = 0 THEN 0
    ELSE LET target == ntot * Scale
             f == RootIn(target, k, Scale, target)
         IN  IF Abs(Pow(f + 1, k) - target) < Abs(target - Pow(f, k)) THEN f + 1 ELSE f

\* Python round(): to nearest, ties to the even integer
Round(v) ==
    LET q == v \div Scale
        m == v % Scale
    IN  IF 2 * m < Scale THEN q
        ELSE IF 2 * m > Scale THEN q + 1
        ELSE IF q % 2 = 0 THEN q ELSE q + 1


\* ---------------------------------------------------------------- state
VARIABLES
    call,      \* the call made on the module: [fn, args, maxfaults], fn = "none"
               \* before it; maxfaults is how many work units the environment
               \* may make raise while it runs
    frames,    \* the call stack, innermost frame last; a frame holds its locals
    ret,       \* the value the last return handed to its caller
    exc,       \* the exception being raised, NoExc when none is
    outcome,   \* "none" while the call runs, then "returned" or "raised"
    pool,      \* the multiprocessing.Pool of the running getSums call
    job,       \* the MapResult of its starmap call
    overtaken, \* whether a chunk has completed before an earlier chunk did
    faults,    \* how many work units have raised
    thrown,    \* the exceptions work units have raised
    work,      \* what has executed: "calibrate", "plan", "unit"
    cal,       \* the get1Time calls of the current sweep point, oldest first
    log        \* the per-point lines cycle has logged

vars == <<call, frames, ret, exc, outcome, pool, job, overtaken, faults, thrown, work, cal, log>>

None == -1      \* an entry of a result list that has not been filled in
WorkUnitError(row) == [exc |-> "WorkUnitError", row |-> row]

\* workers is the number of worker processes of the pool, running the chunks
\* some of them are working on; the workers are interchangeable
NoPool == [state |-> "none", workers |-> 0, running |-> {}]
NoJob == [chunksize |-> 0, length |-> 0, taken |-> 0, left |-> 0,
          value |-> <<>>, success |-> TRUE, error |-> NoExc]

Top == frames[Len(frames)]
InFrame(fn, pc) == frames # <<>> /\ Top.fn = fn /\ Top.pc = pc /\ exc = NoExc
SetTop(f) == [frames EXCEPT ![Len(frames)] = f]
Pop == SubSeq(frames, 1, Len(frames) - 1)
HasFrame(fn) == \E i \in 1..Len(frames) : frames[i].fn = fn

\* a frame returns v to its caller; the outermost return ends the call
Return(v) ==
    /\ frames' = Pop
    /\ ret' = v
    /\ outcome' = IF Len(frames) = 1 THEN "returned" ELSE outcome

\* the arguments the module's functions are called with
SumArgs == (0..MaxArg) \X (0..MaxArg)
LimArgs == (-1..MaxRows) \X (-1..MaxVals)
ProcArgs == 1..MaxProcs
SmallTotals == {0, 16}
CycleArgs == (0..MaxCyc) \X (0..MaxCush) \X (0..MaxCush) \X SmallTotals
CycleCalls == CycleArgs \X ProcArgs
\* the sweep sample_count=3, lower_margin=2, upper_margin=2, total_work=1000,
\* run on one worker with no work unit raising
ExampleCall == <<<<3, 2, 2, 1000>>, 1>>
\* a sweep of two points on two workers
TwoPointCall == <<<<2, 0, 0, 16>>, 2>>
\* what t1 - t0 of two perf_counter() readings can be, in clock ticks
ElapsedTimes == {1, 2}

Init ==
    /\ call = [fn |-> "none", args |-> <<>>, maxfaults |-> 0]
    /\ frames = <<>>
    /\ ret = None
    /\ exc = NoExc
    /\ outcome = "none"
    /\ pool = NoPool
    /\ job = NoJob
    /\ overtaken = FALSE
    /\ faults = 0
    /\ thrown = {}
    /\ work = {}
    /\ cal = <<>>
    /\ log = <<>>

Idle == call.fn = "none"

\* ------------------------------------------------ frames of the functions
Get1TimeFrame(nvals) == [fn |-> "get1Time", pc |-> "t0", nvals |-> nvals, s |-> None]

GetTimeFrame(nrows, nvals, nprocs) ==
    [fn |-> "getTime", pc |-> "t0", nrows |-> nrows, nvals |-> nvals, nprocs |-> nprocs]

GetSumsFrame(nrows, nvals, nprocs) ==
    [fn |-> "getSums", pc |-> "lims", nrows |-> nrows, nvals |-> nvals,
     nprocs |-> nprocs, lim_a2 |-> <<>>, sum_list |-> <<>>]

CycleFrame(ncyc, lcush, ucush, ntot, nprocs) ==
    [fn |-> "cycle", pc |-> "ratio", ncyc |-> ncyc, lcush |-> lcush, ucush |-> ucush,
     ntot |-> ntot, nprocs |-> nprocs, ratio |-> 0, n |-> lcush, nrows |-> 0,
     nvals |-> 0, dt1 |-> 0, dt |-> 0, dt1_list |-> <<>>, dt_list |-> <<>>]

\* ------------------------------------------------ calls on the module
\* getSum(start, end) called directly
CallGetSum ==
    /\ Idle
    /\ \E a \in SumArgs :
        /\ call' = [fn |-> "getSum", args |-> a, maxfaults |-> 0]
        /\ ret' = getSum(a[1], a[2])
    /\ outcome' = "returned"
    /\ work' = work \cup {"unit"}
    /\ UNCHANGED <<frames, exc, pool, job, overtaken, faults, thrown, cal, log>>

\* getLims(nrows, nvals) called directly
CallGetLims ==
    /\ Idle
    /\ \E a \in LimArgs :
        LET r == getLims(a[1], a[2])
        IN  /\ call' = [fn |-> "getLims", args |-> a, maxfaults |-> 0]
            /\ IF r.raised
               THEN exc' = r.exc /\ outcome' = "raised" /\ ret' = ret
               ELSE ret' = r.value /\ outcome' = "returned" /\ exc' = exc
    /\ work' = work \cup {"plan"}
    /\ UNCHANGED <<frames, pool, job, overtaken, faults, thrown, cal, log>>

CallGetSums ==
    /\ Idle
    /\ \E a \in LimArgs, np \in ProcArgs :
        /\ call' = [fn |-> "getSums", args |-> <<a[1], a[2], np>>, maxfaults |-> MaxFaults]
        /\ frames' = <<GetSumsFrame(a[1], a[2], np)>>
    /\ UNCHANGED <<ret, exc, outcome, pool, job, overtaken, faults, thrown, work, cal, log>>

CallGet1Time ==
    /\ Idle
    /\ \E nvals \in 0..MaxVals :
        /\ call' = [fn |-> "get1Time", args |-> <<nvals>>, maxfaults |-> 0]
        /\ frames' = <<Get1TimeFrame(nvals)>>
        /\ cal' = <<[nvals |-> nvals, units |-> <<>>, dt |-> None]>>
    /\ work' = work \cup {"calibrate"}
    /\ UNCHANGED <<ret, exc, outcome, pool, job, overtaken, faults, thrown, log>>

CallGetTime ==
    /\ Idle
    /\ \E a \in LimArgs, np \in ProcArgs :
        /\ call' = [fn |-> "getTime", args |-> <<a[1], a[2], np>>, maxfaults |-> MaxFaults]
        /\ frames' = <<GetTimeFrame(a[1], a[2], np)>>
    /\ UNCHANGED <<ret, exc, outcome, pool, job, overtaken, faults, thrown, work, cal, log>>

CallCycle ==
    /\ Idle
    /\ \E c \in CycleCalls \cup {ExampleCall, TwoPointCall} :
        LET a == c[1]
            np == c[2]
        IN  /\ call' = [fn |-> "cycle", args |-> <<a[1], a[2], a[3], a[4], np>>,
                        maxfaults |-> IF c = ExampleCall THEN 0 ELSE MaxFaults]
            /\ frames' = <<CycleFrame(a[1], a[2], a[3], a[4], np)>>
    /\ UNCHANGED <<ret, exc, outcome, pool, job, overtaken, faults, thrown, work, cal, log>>

\* ------------------------------------------------ get1Time (lines 71-77)
\* t0 = perf_counter(); s = getSum(0, nvals)
Get1Time_Sum ==
    /\ InFrame("get1Time", "t0")
    /\ frames' = SetTop([Top EXCEPT !.pc = "t1", !.s = getSum(0, Top.nvals)])
    /\ cal' = [cal EXCEPT ![Len(cal)].units = Append(@, <<0, Top.nvals>>)]
    /\ work' = work \cup {"unit"}
    /\ UNCHANGED <<call, ret, exc, outcome, pool, job, overtaken, faults, thrown, log>>

\* t1 = perf_counter(); return t1 - t0
Get1Time_Return ==
    /\ InFrame("get1Time", "t1")
    /\ \E d \in ElapsedTimes :
        /\ Return(d)
        /\ cal' = [cal EXCEPT ![Len(cal)].dt = d]
    /\ UNCHANGED <<call, exc, pool, job, overtaken, faults, thrown, work, log>>

\* ------------------------------------------------ getTime (lines 80-89)
\* t0 = perf_counter(); sum_list = getSums(nrows, nvals, nprocs) is called
GetTime_Call ==
    /\ InFrame("getTime", "t0")
    /\ frames' = Append(SetTop([Top EXCEPT !.pc = "t1"]),
                        GetSumsFrame(Top.nrows, Top.nvals, Top.nprocs))
    /\ UNCHANGED <<call, ret, exc, outcome, pool, job, overtaken, faults, thrown, work, cal, log>>

\* getSums has returned; t1 = perf_counter(); return t1 - t0
GetTime_Return ==
    /\ InFrame("getTime", "t1")
    /\ \E d \in ElapsedTimes : Return(d)
    /\ UNCHANGED <<call, exc, pool, job, overtaken, faults, thrown, work, cal, log>>

\* ------------------------------------------------ getSums (lines 62-68)
\* Pool.starmap cuts the rows into chunks of this many rows
Chunksize(length, nprocs) ==
    IF length = 0 THEN 0
    ELSE (length \div (nprocs * 4)) + (IF length % (nprocs * 4) = 0 THEN 0 ELSE 1)

NumChunks(length, chunksize) ==
    IF chunksize = 0 THEN 0
    ELSE (length \div chunksize) + (IF length % chunksize = 0 THEN 0 ELSE 1)

\* the rows (1-based) of chunk c
ChunkRows(j, c) ==
    { i \in 1..j.length : (c - 1) * j.chunksize < i /\ i <= c * j.chunksize }

\* a faulty variant of SetResult: results are stored in the order the chunks complete
SetResultInArrivalOrder(j, c, ok, result) ==
    LET done == NumChunks(j.length, j.chunksize) - j.left
        rows == ChunkRows(j, c)
        first == (c - 1) * j.chunksize
    IN  IF ok /\ j.success
        THEN [j EXCEPT !.left = @ - 1,
                       !.value = [i \in 1..j.length |->
                           IF done * j.chunksize < i /\ i <= done * j.chunksize + Cardinality(rows)
                           THEN result[first + (i - done * j.chunksize)]
                           ELSE j.value[i]]]
        ELSE IF ~ok /\ j.success
        THEN [j EXCEPT !.left = @ - 1, !.success = FALSE, !.error = result]
        ELSE [j EXCEPT !.left = @ - 1]

\* MapResult._set: the result of chunk c arrives.  A successful chunk fills its
\* own slice of the value list; the first failure replaces the value by the
\* exception; the result is ready once no chunk is left.
SetResult(j, c, ok, result) ==
    IF ok /\ j.success
    THEN [j EXCEPT !.left = @ - 1,
                   !.value = [i \in 1..j.length |->
                       IF i \in ChunkRows(j, c) THEN result[i] ELSE j.value[i]]]
    ELSE IF ~ok /\ j.success
    THEN [j EXCEPT !.left = @ - 1, !.success = FALSE, !.error = result]
    ELSE [j EXCEPT !.left = @ - 1]

\* lim_a2 = getLims(nrows, nvals); rowSums = []
GetSums_Lims ==
    /\ InFrame("getSums", "lims")
    /\ LET r == getLims(Top.nrows, Top.nvals)
       IN  IF r.raised
           THEN exc' = r.exc /\ frames' = frames
           ELSE exc' = exc /\ frames' = SetTop([Top EXCEPT !.pc = "pool", !.lim_a2 = r.value])
    /\ work' = work \cup {"plan"}
    /\ UNCHANGED <<call, ret, outcome, pool, job, overtaken, faults, thrown, cal, log>>

\* with Pool(nprocs) as p: the pool starts nprocs idle workers
GetSums_PoolEnter ==
    /\ InFrame("getSums", "pool")
    /\ pool' = [state |-> "running", workers |-> Top.nprocs, running |-> {}]
    /\ frames' = SetTop([Top EXCEPT !.pc = "starmap"])
    /\ UNCHANGED <<call, ret, exc, outcome, job, overtaken, faults, thrown, work, cal, log>>

\* p.starmap(getSum, lim_a2) queues the chunks of rows and waits
GetSums_Starmap ==
    /\ InFrame("getSums", "starmap")
    /\ LET length == Len(Top.lim_a2)
           cs == Chunksize(length, pool.workers)
       IN  job' = [chunksize |-> cs, length |-> length, taken |-> 0,
                   left |-> NumChunks(length, cs),
                   value |-> [i \in 1..length |-> None],
                   success |-> TRUE, error |-> NoExc]
    /\ frames' = SetTop([Top EXCEPT !.pc = "wait"])
    /\ UNCHANGED <<call, ret, exc, outcome, pool, overtaken, faults, thrown, work, cal, log>>

\* an idle worker takes the next chunk off the task queue
Worker_Take ==
    /\ InFrame("getSums", "wait")
    /\ Cardinality(pool.running) < pool.workers
    /\ job.taken < NumChunks(job.length, job.chunksize)
    /\ pool' = [pool EXCEPT !.running = @ \cup {job.taken + 1}]
    /\ job' = [job EXCEPT !.taken = @ + 1]
    /\ UNCHANGED <<call, frames, ret, exc, outcome, overtaken, faults, thrown, work, cal, log>>

\* a worker runs getSum on the rows of its chunk, in order, and hands the
\* chunk's results back; a row whose getSum raises (bad) ends the chunk with
\* that exception
Worker_Run(c) ==
    /\ InFrame("getSums", "wait")
    /\ c \in pool.running
    /\ LET lim == Top.lim_a2
           sums == [i \in 1..job.length |-> getSum(lim[i][1], lim[i][2])]
       IN  \E bad \in {0} \cup (IF faults < call.maxfaults THEN ChunkRows(job, c) ELSE {}) :
               IF bad = 0
               THEN /\ job' = SetResult(job, c, TRUE, sums)
                    /\ UNCHANGED <<faults, thrown>>
               ELSE /\ job' = SetResult(job, c, FALSE, WorkUnitError(bad))
                    /\ faults' = faults + 1
                    /\ thrown' = thrown \cup {WorkUnitError(bad)}
    /\ pool' = [pool EXCEPT !.running = @ \ {c}]
    /\ overtaken' = (overtaken \/ \E b \in pool.running : b < c)
    /\ work' = work \cup {"unit"}
    /\ UNCHANGED <<call, frames, ret, exc, outcome, cal, log>>

\* a faulty variant of GetSums_StarmapDone: a failed row is replaced by a default value
GetSums_StarmapDoneDefault ==
    /\ InFrame("getSums", "wait")
    /\ job.left = 0
    /\ frames' = SetTop([Top EXCEPT !.pc = "exit", !.sum_list =
                     IF job.success THEN job.value ELSE [i \in 1..job.length |-> 0]])
    /\ UNCHANGED <<call, ret, exc, outcome, pool, job, overtaken, faults, thrown, work, cal, log>>

\* a faulty variant of GetSums_StarmapDone: the results are taken without waiting
GetSums_StarmapDoneNoWait ==
    /\ InFrame("getSums", "wait")
    /\ IF job.success
       THEN exc' = exc /\ frames' = SetTop([Top EXCEPT !.pc = "exit", !.sum_list = job.value])
       ELSE exc' = job.error /\ frames' = SetTop([Top EXCEPT !.pc = "exit"])
    /\ UNCHANGED <<call, ret, outcome, pool, job, overtaken, faults, thrown, work, cal, log>>

\* starmap returns once every chunk has reported: the value list, or the
\* first exception raised again in the caller
GetSums_StarmapDone ==
    /\ InFrame("getSums", "wait")
    /\ job.left = 0
    /\ IF job.success
       THEN exc' = exc /\ frames' = SetTop([Top EXCEPT !.pc = "exit", !.sum_list = job.value])
       ELSE exc' = job.error /\ frames' = SetTop([Top EXCEPT !.pc = "exit"])
    /\ UNCHANGED <<call, ret, outcome, pool, job, overtaken, faults, thrown, work, cal, log>>

\* leaving the with block, normally or by the exception: Pool.__exit__
\* terminates the pool and its workers
GetSums_PoolExit ==
    /\ frames # <<>> /\ Top.fn = "getSums" /\ Top.pc = "exit"
    /\ pool.state = "running"
    /\ pool' = [state |-> "terminated", workers |-> 0, running |-> {}]
    /\ frames' = IF exc = NoExc THEN SetTop([Top EXCEPT !.pc = "return"]) ELSE frames
    /\ UNCHANGED <<call, ret, exc, outcome, job, overtaken, faults, thrown, work, cal, log>>

\* return sum_list; the pool object and the map result die with the frame
GetSums_Return ==
    /\ InFrame("getSums", "return")
    /\ Return(Top.sum_list)
    /\ pool' = NoPool
    /\ job' = NoJob
    /\ UNCHANGED <<call, exc, overtaken, faults, thrown, work, cal, log>>

\* ------------------------------------------------ exceptions
\* no function of the module has an except or finally clause: an exception
\* leaves each frame in turn (a getSums frame after its with block has been
\* left), and ends the call when it leaves the outermost one
Propagate ==
    /\ exc # NoExc
    /\ frames # <<>>
    /\ ~(Top.fn = "getSums" /\ pool.state = "running")
    /\ frames' = Pop
    /\ outcome' = IF Len(frames) = 1 THEN "raised" ELSE outcome
    /\ IF Top.fn = "getSums"
       THEN pool' = NoPool /\ job' = NoJob
       ELSE UNCHANGED <<pool, job>>
    /\ UNCHANGED <<call, ret, exc, overtaken, faults, thrown, work, cal, log>>

\* ------------------------------------------------ cycle (lines 92-120)
\* the exponent span ncyc + lcush + ucush
Span(f) == f.ncyc + f.lcush + f.ucush

\* ratio = ntot**(1/(ncyc+lcush+ucush)); dt1_list = []; dt_list = [];
\* the loop starts at n = lcush
Cycle_Ratio ==
    /\ InFrame("cycle", "ratio")
    /\ IF Span(Top) = 0
       THEN exc' = ZeroDivisionError /\ frames' = frames
       ELSE exc' = exc /\ frames' = SetTop([Top EXCEPT !.pc = "loop",
                                                      !.ratio = Root(Top.ntot, Span(Top))])
    /\ UNCHANGED <<call, ret, outcome, pool, job, overtaken, faults, thrown, work, cal, log>>

\* a faulty variant of LoopEnd: the upper cushion is sampled too
LoopEndWithCushion(f) == f.ncyc + f.lcush + f.ucush

\* the end of range(lcush, ncyc+lcush)
LoopEnd(f) == f.ncyc + f.lcush

\* for n in range(lcush, ncyc+lcush): nrows = round(ratio**n);
\* nvals = round(ratio**(ncyc+lcush+ucush-n)); after the last n the loop ends
Cycle_Loop ==
    /\ InFrame("cycle", "loop")
    /\ IF Top.n < LoopEnd(Top)
       THEN /\ frames' = SetTop([Top EXCEPT !.pc = "cal1",
                                           !.nrows = Round(Pow(Top.ratio, Top.n)),
                                           !.nvals = Round(Pow(Top.ratio, Span(Top) - Top.n))])
            /\ cal' = <<>>
       ELSE /\ frames' = SetTop([Top EXCEPT !.pc = "return"])
            /\ cal' = cal
    /\ UNCHANGED <<call, ret, exc, outcome, pool, job, overtaken, faults, thrown, work, log>>

\* line 110: get1Time(nvals) is called
Cycle_Cal1Call ==
    /\ InFrame("cycle", "cal1")
    /\ frames' = Append(SetTop([Top EXCEPT !.pc = "cal1ret"]), Get1TimeFrame(Top.nvals))
    /\ cal' = Append(cal, [nvals |-> Top.nvals, units |-> <<>>, dt |-> None])
    /\ work' = work \cup {"calibrate"}
    /\ UNCHANGED <<call, ret, exc, outcome, pool, job, overtaken, faults, thrown, log>>

\* line 110: dt1 = the value it returned
Cycle_Cal1Ret ==
    /\ InFrame("cycle", "cal1ret")
    /\ frames' = SetTop([Top EXCEPT !.pc = "cal2", !.dt1 = ret])
    /\ UNCHANGED <<call, ret, exc, outcome, pool, job, overtaken, faults, thrown, work, cal, log>>

\* line 111: get1Time(nvals) is called again
Cycle_Cal2Call ==
    /\ InFrame("cycle", "cal2")
    /\ frames' = Append(SetTop([Top EXCEPT !.pc = "cal2ret"]), Get1TimeFrame(Top.nvals))
    /\ cal' = Append(cal, [nvals |-> Top.nvals, units |-> <<>>, dt |-> None])
    /\ work' = work \cup {"calibrate"}
    /\ UNCHANGED <<call, ret, exc, outcome, pool, job, overtaken, faults, thrown, log>>

\* a faulty variant of Cycle_Cal2Ret: the first measurement is kept
Cycle_Cal2RetKeepFirst ==
    /\ InFrame("cycle", "cal2ret")
    /\ frames' = SetTop([Top EXCEPT !.pc = "time", !.dt1_list = Append(@, Top.dt1)])
    /\ UNCHANGED <<call, ret, exc, outcome, pool, job, overtaken, faults, thrown, work, cal, log>>

\* lines 111-112: dt1 = the value it returned; dt1_list.append(dt1)
Cycle_Cal2Ret ==
    /\ InFrame("cycle", "cal2ret")
    /\ frames' = SetTop([Top EXCEPT !.pc = "time", !.dt1 = ret,
                                   !.dt1_list = Append(@, ret)])
    /\ UNCHANGED <<call, ret, exc, outcome, pool, job, overtaken, faults, thrown, work, cal, log>>

\* line 115: getTime(nrows, nvals, nprocs) is called
Cycle_TimeCall ==
    /\ InFrame("cycle", "time")
    /\ frames' = Append(SetTop([Top EXCEPT !.pc = "timeret"]),
                        GetTimeFrame(Top.nrows, Top.nvals, Top.nprocs))
    /\ UNCHANGED <<call, ret, exc, outcome, pool, job, overtaken, faults, thrown, work, cal, log>>

\* lines 115-118: dt = the value it returned; dt_list.append(dt); the point
\* is logged; the loop goes on with the next n
Cycle_TimeRet ==
    /\ InFrame("cycle", "timeret")
    /\ frames' = SetTop([Top EXCEPT !.pc = "loop", !.dt = ret,
                                   !.dt_list = Append(@, ret), !.n = @ + 1])
    /\ log' = Append(log, [nrows |-> Top.nrows, nvals |-> Top.nvals,
                           dt1 |-> Top.dt1, dt |-> ret])
    /\ UNCHANGED <<call, ret, exc, outcome, pool, job, overtaken, faults, thrown, work, cal>>

\* return array(dt1_list), array(dt_list)
Cycle_Return ==
    /\ InFrame("cycle", "return")
    /\ Return(<<Top.dt1_list, Top.dt_list>>)
    /\ UNCHANGED <<call, exc, pool, job, overtaken, faults, thrown, work, cal, log>>

\* ------------------------------------------------ specification
Next ==
    \/ CallGetSum
    \/ CallGetLims
    \/ CallGetSums
    \/ CallGet1Time
    \/ CallGetTime
    \/ CallCycle
    \/ Get1Time_Sum
    \/ Get1Time_Return
    \/ GetTime_Call
    \/ GetTime_Return
    \/ GetSums_Lims
    \/ GetSums_PoolEnter
    \/ GetSums_Starmap
    \/ Worker_Take
    \/ \E c \in pool.running : Worker_Run(c)
    \/ GetSums_StarmapDone
    \/ GetSums_PoolExit
    \/ GetSums_Return
    \/ Propagate
    \/ Cycle_Ratio
    \/ Cycle_Loop
    \/ Cycle_Cal1Call
    \/ Cycle_Cal1Ret
    \/ Cycle_Cal2Call
    \/ Cycle_Cal2Ret
    \/ Cycle_TimeCall
    \/ Cycle_TimeRet
    \/ Cycle_Return

Spec == Init /\ [][Next]_vars

\* ------------------------------------------------ properties
Finished == outcome # "none"
Returned(fn) == call.fn = fn /\ outcome = "returned"

\* the exact sum of the integers of range(start, end), in units 1/Scale^2
ExactSum(start, end) ==
    IF start >= end THEN 0
    ELSE (((end - 1) * end - (start - 1) * start) \div 2) * Scale * Scale

\* v is the exact value up to 1/64 per term
WithinTolerance(v, exact, terms) == 64 * Abs(v - exact) <= Scale * Scale * terms

\* the plan getSums works on for the arguments of a direct call
PlanOf(args) == getLims(args[1], args[2]).value

\* C1: for positive nrows and nvals, row i of the plan getLims returns is
\* [i*nvals, i*nvals + nvals) (rows counted from 0).  The code returns
\* [i, i + nvals) instead.
C1_RowsAreDisjointBlocks ==
    (Returned("getLims") /\ call.args[1] > 0 /\ call.args[2] > 0) =>
        \A i \in 1..call.args[1] :
            ret[i] = <<(i - 1) * call.args[2], (i - 1) * call.args[2] + call.args[2]>>

\* C2: getSums returns one result per range of its plan, result i being
\* getSum of range i, whatever the number of workers and whatever order the
\* chunks complete in.
C2_ResultsInPlanOrder ==
    /\ (frames # <<>> /\ Top.fn = "getSums" /\ Top.pc = "return") =>
           /\ Len(Top.sum_list) = Len(Top.lim_a2)
           /\ \A i \in 1..Len(Top.lim_a2) :
                  Top.sum_list[i] = getSum(Top.lim_a2[i][1], Top.lim_a2[i][2])
    /\ Returned("getSums") =>
           /\ Len(ret) = Len(PlanOf(call.args))
           /\ \A i \in 1..Len(ret) :
                  ret[i] = getSum(PlanOf(call.args)[i][1], PlanOf(call.args)[i][2])

\* a getSums call with fewer workers than ranges has returned although a later
\* chunk completed before an earlier one
C2_Witness ==
    /\ Returned("getSums")
    /\ overtaken
    /\ call.args[3] < call.args[1]
    /\ call.args[2] > 0
    /\ Len(ret) = call.args[1]

\* C3: once a work unit has raised, the call it ran in ends by raising that
\* exception: getSums hands no result list to its caller, and cycle returns
\* no report.
C3_FailurePropagates ==
    /\ (thrown # {} /\ Finished) => (outcome = "raised" /\ exc \in thrown)
    /\ exc \in thrown =>
           /\ HasFrame("getSums") => (~job.success /\ job.error = exc)
           /\ \A i \in 1..Len(frames) :
                  frames[i].fn = "getSums" => frames[i].sum_list = <<>>
    /\ (frames # <<>> /\ Top.fn = "getSums" /\ Top.pc = "return") => job.success

\* a sweep has ended with the exception of a work unit of its second point
C3_Witness ==
    /\ call.fn = "cycle"
    /\ outcome = "raised"
    /\ exc \in thrown
    /\ Len(log) = 1

\* C4: getLims with nrows <= 0 or nvals <= 0 fails and returns no plan.  The
\* code fails only for nrows < 0.
C4_NonPositiveRejected ==
    (call.fn = "getLims" /\ Finished /\ (call.args[1] <= 0 \/ call.args[2] <= 0)) =>
        outcome = "raised"

\* C5: cycle with ncyc = 0, with ncyc + lcush + ucush <= 0 or with ntot <= 0
\* fails before any calibration, plan construction or work unit has run and
\* returns no report.  The code checks none of its arguments.
C5_InvalidSweepRejected ==
    (/\ call.fn = "cycle"
     /\ \/ call.args[1] = 0
        \/ call.args[1] + call.args[2] + call.args[3] <= 0
        \/ call.args[4] <= 0) =>
        (work = {} /\ outcome # "returned")

\* C6: a sweep that returns has emitted exactly ncyc points, point i being
\* the one of n = lcush + i (i from 0): nrows = round(ratio**n) and
\* nvals = round(ratio**(ncyc+lcush+ucush-n)); both returned lists hold its
\* times.  The example sweep emits 3 points, each with nrows*nvals within
\* half of ntot.
C6_SweepPoints ==
    Returned("cycle") =>
        LET ncyc == call.args[1]
            lcush == call.args[2]
            span == call.args[1] + call.args[2] + call.args[3]
            ntot == call.args[4]
            ratio == Root(ntot, span)
        IN  /\ Len(log) = ncyc
            /\ Len(ret[1]) = ncyc
            /\ Len(ret[2]) = ncyc
            /\ \A i \in 1..Len(log) :
                   /\ log[i].nrows = Round(Pow(ratio, lcush + i - 1))
                   /\ log[i].nvals = Round(Pow(ratio, span - (lcush + i - 1)))
                   /\ i <= Len(ret[1]) => ret[1][i] = log[i].dt1
                   /\ i <= Len(ret[2]) => ret[2][i] = log[i].dt
            /\ <<call.args[1], call.args[2], call.args[3], call.args[4]>> = ExampleCall[1] =>
                   /\ Len(log) = 3
                   /\ \A i \in 1..Len(log) :
                          2 * Abs(log[i].nrows * log[i].nvals - ntot) < ntot

\* the example sweep has returned its three points, the first of them with
\* nrows*nvals off the total
C6_Witness ==
    /\ Returned("cycle")
    /\ <<call.args[1], call.args[2], call.args[3], call.args[4]>> = ExampleCall[1]
    /\ Len(log) = 3
    /\ log[1].nrows * log[1].nvals # call.args[4]

\* C7: a sweep point's parallel run starts only after get1Time has been
\* called exactly twice on the point's nvals, each call timing one getSum
\* over [0, nvals), and the time recorded for the point is the one the second
\* call returned.
C7_SecondCalibrationKept ==
    (frames # <<>> /\ frames[1].fn = "cycle") =>
        LET f == frames[1]
            BothDone ==
                /\ Len(cal) = 2
                /\ \A j \in 1..2 :
                       /\ cal[j].nvals = f.nvals
                       /\ cal[j].units = << <<0, f.nvals>> >>
                       /\ cal[j].dt # None
        IN  /\ (Len(frames) > 1 /\ frames[2].fn = "getTime") => f.pc = "timeret"
            /\ pool.state # "none" => f.pc = "timeret"
            /\ f.pc \in {"time", "timeret"} =>
                   /\ BothDone
                   /\ f.dt1 = cal[2].dt
                   /\ Len(f.dt1_list) = Len(log) + 1
                   /\ f.dt1_list[Len(f.dt1_list)] = cal[2].dt
            /\ (f.pc = "loop" /\ log # <<>>) =>
                   /\ BothDone
                   /\ log[Len(log)].dt1 = cal[2].dt
                   /\ f.dt1_list[Len(f.dt1_list)] = cal[2].dt

\* the parallel run of a point is under way, the two calibrations returned
\* different times and the second one is the one recorded
C7_Witness ==
    /\ frames # <<>> /\ frames[1].fn = "cycle" /\ frames[1].pc = "timeret"
    /\ pool.state = "running"
    /\ Len(cal) = 2
    /\ cal[1].dt # cal[2].dt
    /\ frames[1].dt1_list[Len(frames[1].dt1_list)] = cal[2].dt

\* C8: getSum(start, end) of non-negative integers returns, up to the
\* rounding of sqrt(x)**2, the sum of the integers of [start, end); 0 when
\* start >= end; and 10 for (0, 5).
C8_SumOfRange ==
    (call.fn = "getSum" /\ Finished) =>
        LET start == call.args[1]
            end == call.args[2]
        IN  /\ outcome = "returned"
            /\ start >= end => ret = 0
            /\ start < end => WithinTolerance(ret, ExactSum(start, end), end - start)
            /\ (start = 0 /\ end = 5) =>
                   WithinTolerance(ret, 10 * Scale * Scale, 5)

\* getSum(0, 5) has returned a value that is 10 up to rounding, and not 10
C8_Witness ==
    /\ Returned("getSum")
    /\ call.args = <<0, 5>>
    /\ ret # 10 * Scale * Scale
    /\ WithinTolerance(ret, 10 * Scale * Scale, 5)

\* C9: for positive nrows and nvals the plan has nrows ranges, each with
\* end - start = nvals.
C9_PlanShape ==
    /\ (Returned("getLims") /\ call.args[1] > 0 /\ call.args[2] > 0) =>
           /\ Len(ret) = call.args[1]
           /\ \A i \in 1..Len(ret) : ret[i][2] - ret[i][1] = call.args[2]
    /\ \A k \in 1..Len(frames) :
           (/\ frames[k].fn = "getSums" /\ frames[k].pc # "lims"
            /\ frames[k].nrows > 0 /\ frames[k].nvals > 0) =>
               /\ Len(frames[k].lim_a2) = frames[k].nrows
               /\ \A i \in 1..Len(frames[k].lim_a2) :
                      frames[k].lim_a2[i][2] - frames[k].lim_a2[i][1] = frames[k].nvals

\* getLims(3, 2) has returned its three ranges
C9_Witness ==
    /\ Returned("getLims")
    /\ call.args = <<3, 2>>
    /\ Len(ret) = 3
    /\ ret[3][2] > ret[3][1]

\* C10: the pool exists only inside the getSums call that made it, it is made
\* before any range is dispatched, no worker is running a chunk when the with
\* block is left, no worker exists once the call has returned or failed, and
\* the list it returns has a result for every range.
C10_PoolScopedToCall ==
    /\ pool.state = "running" =>
           (Top.fn = "getSums" /\ Top.pc \in {"starmap", "wait", "exit"})
    /\ job # NoJob => pool.state # "none"
    /\ (frames = <<>> \/ Top.fn # "getSums") => (pool = NoPool /\ job = NoJob)
    /\ pool.state = "terminated" => (pool.workers = 0 /\ pool.running = {})
    /\ (frames # <<>> /\ Top.fn = "getSums" /\ Top.pc \in {"exit", "return"}) =>
           /\ pool.running = {}
           /\ job.left = 0
           /\ job.taken = NumChunks(job.length, job.chunksize)
    /\ (frames # <<>> /\ Top.fn = "getSums" /\ Top.pc = "return") =>
           /\ pool.state = "terminated"
           /\ Len(Top.sum_list) = Len(Top.lim_a2)
           /\ \A i \in 1..Len(Top.sum_list) : Top.sum_list[i] # None

\* a getSums call on more ranges than workers is about to return: its pool is
\* terminated and every range has its result
C10_Witness ==
    /\ frames # <<>> /\ Top.fn = "getSums" /\ Top.pc = "return"
    /\ pool.state = "terminated"
    /\ Len(Top.sum_list) > Top.nprocs
    /\ overtaken

====
